---- MODULE Spec2Model ----
(***************************************************************************)
(* Model of src/main.py: the segmentation pipeline of the privacy-policy   *)
(* formatter (find_lists, limit_section, ensure_English, get_segments).    *)
(*                                                                         *)
(* A Python str is a sequence of one-character strings; a Python list is   *)
(* a sequence.  Python indices are kept 0-based in the variables, so the   *)
(* element the code calls xs[i] is xs[i + 1] here.                         *)
(***************************************************************************)
EXTENDS Integers, Sequences, FiniteSets, TLC

VARIABLES
    pc,                 \* position in the code
    exception,          \* "None", or the exception that ended the run
    input,              \* the argument as it was passed (lists are mutated in place)
    sentences,          \* find_lists / limit_section / get_segments: sentences
    sentence_index,     \* find_lists / limit_section: sentence_index
    list_index,         \* find_lists: list_index
    first_char,         \* find_lists: first_char
    current_sentence,   \* find_lists: a str; limit_section: a list of words
    length_limit,       \* limit_section: length_limit
    limited_sentences,  \* limit_section: limited_sentences
    section,            \* limit_section: section
    token_count,        \* limit_section: token_count
    current_index,      \* limit_section: current_index
    remainder_sentence, \* limit_section: remainder_sentence
    segments,           \* ensure_English: its argument; get_segments: segments
    english_sentences,  \* ensure_English: english_sentences
    verdicts,           \* what langdetect.detect_langs answered, per string
    file_contents       \* get_segments: file_contents

vars == <<pc, exception, input, sentences, sentence_index, list_index,
          first_char, current_sentence, length_limit, limited_sentences,
          section, token_count, current_index, remainder_sentence, segments,
          english_sentences, verdicts, file_contents>>

findListsVars == <<sentences, sentence_index, list_index, first_char>>
limitVars == <<length_limit, limited_sentences, section, token_count,
               current_index, remainder_sentence>>
englishVars == <<segments, english_sentences, verdicts>>

----
(* Python str and list primitives *)

\* str.strip() and str.isspace(): the whitespace characters of the model
Whitespace == {" ", "\t", "\n"}

Str(c) == <<c>>

Last(s) == s[Len(s)]

Min(a, b) == IF a < b THEN a ELSE b

\* xs[:n] for n >= 0
Take(xs, n) == SubSeq(xs, 1, Min(n, Len(xs)))

\* xs[n:] for n >= 0
Drop(xs, n) == SubSeq(xs, n + 1, Len(xs))

\* xs[:n] for any integer n (a negative n counts from the end)
SliceTo(xs, n) == IF n >= 0 THEN Take(xs, n)
                  ELSE IF Len(xs) + n > 0 THEN Take(xs, Len(xs) + n) ELSE <<>>

RECURSIVE LeadingSpace(_, _)
LeadingSpace(s, i) ==
    IF i > Len(s) \/ s[i] \notin Whitespace THEN i ELSE LeadingSpace(s, i + 1)

RECURSIVE TrailingSpace(_, _)
TrailingSpace(s, i) ==
    IF i < 1 \/ s[i] \notin Whitespace THEN i ELSE TrailingSpace(s, i - 1)

\* s.strip()
Strip(s) == SubSeq(s, LeadingSpace(s, 1), TrailingSpace(s, Len(s)))

\* the positions in lo..hi of s that hold a character of seps, in order
RECURSIVE SepPositions(_, _, _, _)
SepPositions(s, seps, lo, hi) ==
    IF lo > hi THEN <<>>
    ELSE IF lo = hi THEN (IF s[lo] \in seps THEN <<lo>> ELSE <<>>)
    ELSE LET mid == (lo + hi) \div 2
         IN  SepPositions(s, seps, lo, mid) \o SepPositions(s, seps, mid + 1, hi)

\* re.split(r'[seps]', s), and s.split(sep) for a one-character sep:
\* one piece more than there are separators, empty pieces kept
SplitOn(s, seps) ==
    LET cut == <<0>> \o SepPositions(s, seps, 1, Len(s)) \o <<Len(s) + 1>>
    IN  [k \in 1..(Len(cut) - 1) |-> SubSeq(s, cut[k] + 1, cut[k + 1] - 1)]

\* s.split(" ")
Split(s) == SplitOn(s, {" "})

\* " ".join(words[lo..hi])
RECURSIVE JoinRange(_, _, _)
JoinRange(words, lo, hi) ==
    IF lo > hi THEN <<>>
    ELSE IF lo = hi THEN words[lo]
    ELSE LET mid == (lo + hi) \div 2
         IN  JoinRange(words, lo, mid) \o Str(" ") \o JoinRange(words, mid + 1, hi)

\* " ".join(words)
Join(words) == JoinRange(words, 1, Len(words))

\* the concatenation of a list of lists
RECURSIVE ConcatRange(_, _, _)
ConcatRange(xss, lo, hi) ==
    IF lo > hi THEN <<>>
    ELSE IF lo = hi THEN xss[lo]
    ELSE LET mid == (lo + hi) \div 2
         IN  ConcatRange(xss, lo, mid) \o ConcatRange(xss, mid + 1, hi)

Concat(xss) == ConcatRange(xss, 1, Len(xss))

\* all sequences over S of length 0..n
SeqUpTo(S, n) == UNION {[1..k -> S] : k \in 0..n}

----
(* find_lists, src/main.py lines 35-80 *)

\* the characters that end a list-introducing sentence (line 62)
ListMarkers == {":", ";"}

\* line 62: current_sentence[-1] in [":", ";"]
EndsInMarker(s) == Last(s) \in ListMarkers

\* line 74 without the period that ends the item
ListItemOpen(stub, item) == stub \o item

\* line 74: current_sentence + sentences[list_index] + "."
ListItem(stub, item) == stub \o item \o Str(".")

\* line 72, first conjunct: sentences[list_index][0] == first_char
StartsWith(s, c) == s[1] = c

\* line 59, loop condition false: return sentences (line 80)
FL_Return ==
    /\ pc = "fl_loop"
    /\ ~(sentence_index < Len(sentences))
    /\ pc' = "fl_return"
    /\ UNCHANGED <<exception, input, findListsVars, current_sentence,
                   limitVars, englishVars, file_contents>>

\* lines 61-62, 77-79: the sentence does not introduce a list
FL_Next ==
    /\ pc = "fl_loop"
    /\ sentence_index < Len(sentences)
    /\ ~EndsInMarker(sentences[sentence_index + 1])
    /\ current_sentence' = sentences[sentence_index + 1]
    /\ sentence_index' = sentence_index + 1
    /\ UNCHANGED <<pc, exception, input, sentences, list_index, first_char,
                   limitVars, englishVars, file_contents>>

\* line 64 when the marker is the last sentence: sentences[sentence_index+1]
\* raises IndexError
FL_TrailingMarker ==
    /\ pc = "fl_loop"
    /\ sentence_index < Len(sentences)
    /\ EndsInMarker(sentences[sentence_index + 1])
    /\ ~(sentence_index + 1 < Len(sentences))
    /\ current_sentence' = sentences[sentence_index + 1]
    /\ pc' = "raised"
    /\ exception' = "IndexError"
    /\ UNCHANGED <<input, findListsVars, limitVars, englishVars, file_contents>>

\* lines 64-68: the sentence after the marker is only whitespace
FL_BlankFollower ==
    /\ pc = "fl_loop"
    /\ sentence_index < Len(sentences)
    /\ EndsInMarker(sentences[sentence_index + 1])
    /\ sentence_index + 1 < Len(sentences)
    /\ Len(Strip(sentences[sentence_index + 2])) = 0
    /\ current_sentence' = sentences[sentence_index + 1]
    /\ first_char' = Strip(sentences[sentence_index + 2])
    /\ sentence_index' = sentence_index + 1
    /\ UNCHANGED <<pc, exception, input, sentences, list_index,
                   limitVars, englishVars, file_contents>>

\* lines 64-70: the first non-whitespace character of the next sentence
\* becomes the list stub
FL_ListStart ==
    /\ pc = "fl_loop"
    /\ sentence_index < Len(sentences)
    /\ EndsInMarker(sentences[sentence_index + 1])
    /\ sentence_index + 1 < Len(sentences)
    /\ Len(Strip(sentences[sentence_index + 2])) # 0
    /\ current_sentence' = sentences[sentence_index + 1]
    /\ first_char' = Strip(sentences[sentence_index + 2])[1]
    /\ list_index' = sentence_index + 1
    /\ pc' = "fl_while"
    /\ UNCHANGED <<exception, input, sentences, sentence_index,
                   limitVars, englishVars, file_contents>>

\* line 72 with list_index = len(sentences): sentences[list_index] is
\* evaluated before the bound check and raises IndexError
FL_ListOverrun ==
    /\ pc = "fl_while"
    /\ ~(list_index < Len(sentences))
    /\ pc' = "raised"
    /\ exception' = "IndexError"
    /\ UNCHANGED <<input, findListsVars, current_sentence, limitVars,
                   englishVars, file_contents>>

\* lines 72-75: the sentence starts with the list stub and is rewritten
FL_Item ==
    /\ pc = "fl_while"
    /\ list_index < Len(sentences)
    /\ StartsWith(sentences[list_index + 1], first_char)
    /\ sentences' = [sentences EXCEPT ![list_index + 1] =
                        ListItem(current_sentence, sentences[list_index + 1])]
    /\ list_index' = list_index + 1
    /\ UNCHANGED <<pc, exception, input, sentence_index, first_char,
                   current_sentence, limitVars, englishVars, file_contents>>

\* lines 72, 76: the sentence does not start with the list stub
FL_ListEnd ==
    /\ pc = "fl_while"
    /\ list_index < Len(sentences)
    /\ ~StartsWith(sentences[list_index + 1], first_char)
    /\ sentence_index' = list_index
    /\ pc' = "fl_loop"
    /\ UNCHANGED <<exception, input, sentences, list_index, first_char,
                   current_sentence, limitVars, englishVars, file_contents>>

FindLists ==
    \/ FL_Return
    \/ FL_Next
    \/ FL_TrailingMarker
    \/ FL_BlankFollower
    \/ FL_ListStart
    \/ FL_ListOverrun
    \/ FL_Item
    \/ FL_ListEnd

\* the longest list of sentences find_lists is called on
MaxSentences == 4

\* the sentences find_lists is called on: markers, list items with and
\* without a marker at their end, an indented item, blank text and prose
ListSentences ==
    { <<"a", ":">>, <<"-", "b">>, <<"-", "c", ";">>, <<" ", "-", "d">>,
      <<" ">>, <<"e">> }

InitFindLists ==
    /\ input \in SeqUpTo(ListSentences, MaxSentences)
    /\ sentences = input
    /\ pc = "fl_loop"
    /\ exception = "None"
    /\ sentence_index = 0
    /\ list_index = 0
    /\ first_char = <<>>
    /\ current_sentence = <<>>
    /\ length_limit = 0
    /\ limited_sentences = <<>>
    /\ section = <<>>
    /\ token_count = 0
    /\ current_index = 0
    /\ remainder_sentence = <<>>
    /\ segments = <<>>
    /\ english_sentences = <<>>
    /\ verdicts = <<>>
    /\ file_contents = <<>>

SpecFindLists == InitFindLists /\ [][FindLists]_vars

----
(* find_lists: properties *)

\* the last position j >= i such that every sentence of xs after position i
\* up to j starts with c (j = i when the run is empty); positions from 1
RECURSIVE RunEnd(_, _, _)
RunEnd(xs, i, c) ==
    IF i + 1 <= Len(xs) /\ StartsWith(xs[i + 1], c) THEN RunEnd(xs, i + 1, c) ELSE i

\* what the list of marker sentence i (positions from 1) must look like in
\* the sequence now, when its items start with c: the marker as it was, each
\* sentence of the run rewritten, the sentence after the run as it was, and
\* as many sentences as before
ListRewritten(now, before, i, c) ==
    LET j == RunEnd(before, i, c)
    IN  /\ Len(now) = Len(before)
        /\ now[i] = before[i]
        /\ \A k \in (i + 1)..j : now[k] = before[i] \o before[k] \o <<".">>
        /\ j + 1 <= Len(before) => now[j + 1] = before[j + 1]

\* the list scan of find_lists is about to leave its inner loop (line 72
\* evaluates to false or raises)
ListScanLeaves ==
    /\ pc = "fl_while"
    /\ \/ ~(list_index < Len(sentences))
       \/ ~StartsWith(sentences[list_index + 1], first_char)

Bullets == {"-"}

\* a sentence that is blank or starts, after its indentation, with a bullet
Bulleted(s) == Strip(s) = <<>> \/ Strip(s)[1] \in Bullets

\* C4: when a marker sentence is followed by ordinary prose and the text
\* holds no bulleted item at all, find_lists treats nothing as a list: no
\* sentence is rewritten, and the sequence stays equal to the input.
C4_ProseNotMerged ==
    (/\ \A k \in 1..Len(input) : ~Bulleted(input[k])
     /\ \A k \in 1..(Len(input) - 1) :
            EndsInMarker(input[k]) => ~EndsInMarker(input[k + 1]))
    => sentences = input

\* C8: find_lists never makes an out-of-range index access: a trailing
\* marker and a list that runs through the last sentence both return.
C8_NoIndexError ==
    exception # "IndexError"

----
(* limit_section, src/main.py lines 82-132 *)

\* line 105: sentences[current_index].strip().split(" ")
Words(sentence) == Split(Strip(sentence))

\* line 107: the sentence is the first of its section and has no room in it
Oversized(words, count, limit) == count = limit /\ Len(words) + 1 > limit

\* line 111 with a slice of length_limit + 1 words
CutoffTooLong(remainder, limit) ==
    Join(SliceTo(remainder, limit + 1)) \o Str(".")

\* line 111: " ".join(remainder_sentence[:length_limit - 1]) + "."
Cutoff(remainder, limit) == Join(SliceTo(remainder, limit - 1)) \o Str(".")

\* line 115: current_sentence[:length_limit - 2] + ["."]
SplitHead(words, limit) == SliceTo(words, limit - 2) \o <<Str(".")>>

\* line 119: the section has room for the sentence
HasRoom(count) == count >= 0

\* the most segments a run may emit before the model stops following it
MaxSegments == 10

\* line 98, loop condition false: return limited_sentences (line 132)
LS_Return ==
    /\ pc = "ls_outer"
    /\ ~(sentence_index < Len(sentences))
    /\ pc' = "ls_return"
    /\ UNCHANGED <<exception, input, findListsVars, current_sentence,
                   limitVars, englishVars, file_contents>>

\* lines 98-102: start a section at the cursor
LS_Section ==
    /\ pc = "ls_outer"
    /\ sentence_index < Len(sentences)
    /\ section' = <<>>
    /\ token_count' = length_limit
    /\ current_index' = sentence_index
    /\ pc' = "ls_inner"
    /\ UNCHANGED <<exception, input, findListsVars, current_sentence,
                   length_limit, limited_sentences, remainder_sentence,
                   englishVars, file_contents>>

\* line 104, loop condition false: no sentence is left, or no room
LS_Stop ==
    /\ pc = "ls_inner"
    /\ ~(current_index < Len(sentences) /\ token_count > 0)
    /\ pc' = "ls_emit"
    /\ UNCHANGED <<exception, input, findListsVars, current_sentence,
                   limitVars, englishVars, file_contents>>

\* lines 104-107: take the sentence at current_index and split it in words
LS_Sentence ==
    /\ pc = "ls_inner"
    /\ current_index < Len(sentences) /\ token_count > 0
    /\ current_sentence' = Words(sentences[current_index + 1])
    /\ pc' = IF Oversized(current_sentence', token_count, length_limit)
             THEN "ls_split" ELSE "ls_count"
    /\ UNCHANGED <<exception, input, findListsVars, limitVars, englishVars,
                   file_contents>>

\* line 109: remainder_sentence = current_sentence[length_limit:]
LS_Remainder ==
    /\ pc = "ls_split"
    /\ remainder_sentence' = Drop(current_sentence, length_limit)
    /\ pc' = "ls_cut"
    /\ UNCHANGED <<exception, input, findListsVars, current_sentence,
                   length_limit, limited_sentences, section, token_count,
                   current_index, englishVars, file_contents>>

\* lines 110-113: cut a slice off the remainder and emit it
LS_Cutoff ==
    /\ pc = "ls_cut"
    /\ Len(remainder_sentence) > length_limit
    /\ Len(limited_sentences) < MaxSegments
    /\ limited_sentences' =
           Append(limited_sentences, Cutoff(remainder_sentence, length_limit))
    /\ remainder_sentence' = Drop(remainder_sentence, length_limit)
    /\ UNCHANGED <<pc, exception, input, findListsVars, current_sentence,
                   length_limit, section, token_count, current_index,
                   englishVars, file_contents>>

\* lines 110, 114-115: emit what is left of the remainder and keep the head
\* of the sentence, with a period, as the sentence to pack
LS_Head ==
    /\ pc = "ls_cut"
    /\ ~(Len(remainder_sentence) > length_limit)
    /\ Len(limited_sentences) < MaxSegments
    /\ limited_sentences' = Append(limited_sentences, Join(remainder_sentence))
    /\ current_sentence' = SplitHead(current_sentence, length_limit)
    /\ pc' = "ls_count"
    /\ UNCHANGED <<exception, input, findListsVars, length_limit, section,
                   token_count, current_index, remainder_sentence,
                   englishVars, file_contents>>

\* lines 118-123: the sentence fits and is added to the section
LS_Add ==
    /\ pc = "ls_count"
    /\ token_count' = token_count - (Len(current_sentence) + 1)
    /\ HasRoom(token_count')
    /\ section' = section \o Join(current_sentence) \o Str(" ")
    /\ current_index' = current_index + 1
    /\ pc' = "ls_inner"
    /\ UNCHANGED <<exception, input, findListsVars, current_sentence,
                   length_limit, limited_sentences, remainder_sentence,
                   englishVars, file_contents>>

\* lines 118-119, 124-127: the sentence does not fit and is left for the
\* next section
LS_Break ==
    /\ pc = "ls_count"
    /\ token_count' = token_count - (Len(current_sentence) + 1)
    /\ ~HasRoom(token_count')
    /\ pc' = "ls_emit"
    /\ UNCHANGED <<exception, input, findListsVars, current_sentence,
                   length_limit, limited_sentences, section, current_index,
                   remainder_sentence, englishVars, file_contents>>

\* lines 129-130: move the cursor and emit the section
LS_Emit ==
    /\ pc = "ls_emit"
    /\ Len(limited_sentences) < MaxSegments
    /\ sentence_index' = current_index
    /\ limited_sentences' = Append(limited_sentences, section)
    /\ pc' = "ls_outer"
    /\ UNCHANGED <<exception, input, sentences, list_index, first_char,
                   current_sentence, length_limit, section, token_count,
                   current_index, remainder_sentence, englishVars,
                   file_contents>>

LimitSection ==
    \/ LS_Return
    \/ LS_Section
    \/ LS_Stop
    \/ LS_Sentence
    \/ LS_Remainder
    \/ LS_Cutoff
    \/ LS_Head
    \/ LS_Add
    \/ LS_Break
    \/ LS_Emit

\* the longest list of sentences limit_section is called on
MaxPacked == 2

\* the most words of a sentence limit_section is called on
MaxWords == 5

\* the largest length_limit limit_section is called with
MaxLimit == 3

\* the words of the sentences: every word of a text is another letter
Alphabet ==
    << "a", "b", "c", "d", "e", "f", "g", "h", "i", "j", "k", "l", "m",
       "n", "o", "p", "q", "r", "s", "t", "u", "v", "w", "x", "y", "z" >>

\* sentence k of a text when it has n words: its words joined by spaces and
\* ended by a period; every sentence but the first follows a space, as the
\* fragments of a line do
PackedSentence(k, n) ==
    (IF k > 1 THEN Str(" ") ELSE <<>>)
    \o Join([j \in 1..n |-> Str(Alphabet[(k - 1) * MaxWords + j])])
    \o Str(".")

PackedTexts ==
    UNION { { [k \in 1..m |-> PackedSentence(k, size[k])] :
                size \in [1..m -> 1..MaxWords] } : m \in 0..MaxPacked }

InitLimitSection ==
    /\ input \in PackedTexts
    /\ sentences = input
    /\ length_limit \in 1..MaxLimit
    /\ pc = "ls_outer"
    /\ exception = "None"
    /\ sentence_index = 0
    /\ list_index = 0
    /\ first_char = <<>>
    /\ current_sentence = <<>>
    /\ limited_sentences = <<>>
    /\ section = <<>>
    /\ token_count = 0
    /\ current_index = 0
    /\ remainder_sentence = <<>>
    /\ segments = <<>>
    /\ english_sentences = <<>>
    /\ verdicts = <<>>
    /\ file_contents = <<>>

SpecLimitSection == InitLimitSection /\ [][LimitSection]_vars

----
(* limit_section: properties *)

\* the size of a segment in the unit the packer counts (line 105)
WordCount(segment) == Len(Words(segment))

\* the sentences among the first n of the input that have more words than
\* the limit
LongSentences(n) ==
    {k \in 1..n : Len(Words(input[k])) > length_limit}

Letters(text) == SelectSeq(text, LAMBDA ch : ch \notin {" ", "."})

\* the position of a letter in the input
InputPosition(letter) ==
    LET all == Letters(Concat(input))
    IN  CHOOSE p \in 1..Len(all) : all[p] = letter

\* C2: the words of the emitted segments, read in the order of emission,
\* are in the order of the input.
C2_OrderPreserved ==
    LET out == Letters(Concat(limited_sentences))
    IN  \A p, q \in 1..Len(out) :
            p < q => InputPosition(out[p]) < InputPosition(out[q])

\* a word without the period that ends it
Unterminated(word) ==
    IF Len(word) > 0 /\ Last(word) = "." THEN SubSeq(word, 1, Len(word) - 1)
    ELSE word

\* the words of a list of strings, without their periods
AllWords(texts) ==
    LET ws == Concat([k \in 1..Len(texts) |-> Words(texts[k])])
    IN  [k \in 1..Len(ws) |-> Unterminated(ws[k])]

\* C9: for a limit of 2 or more, every word of every input sentence appears
\* exactly once among the words of the returned segments.
C9_NoWordLost ==
    (pc = "ls_return" /\ length_limit >= 2) =>
        LET inw == AllWords(input)
            outw == AllWords(limited_sentences)
        IN  \A k \in 1..Len(inw) :
                Cardinality({p \in 1..Len(outw) : outw[p] = inw[k]}) = 1

\* C10: every iteration of the outer loop of limit_section consumes at
\* least one sentence: when the section is emitted the cursor moves forward.
C10_CursorAdvances ==
    pc = "ls_emit" => current_index > sentence_index

----
(* ensure_English, src/main.py lines 8-32 *)

\* the language codes langdetect reports
Languages == {"en", "fr"}

\* what langdetect.detect_langs(sentence) can do: raise LangDetectException,
\* or return a list of distinct languages (none, one or several)
Raised == [raised |-> TRUE, langs |-> <<>>]

Reported(langs) == [raised |-> FALSE, langs |-> langs]

LanguageLists ==
    {ls \in SeqUpTo(Languages, Cardinality(Languages)) :
        \A p, q \in 1..Len(ls) : p # q => ls[p] # ls[q]}

\* line 29 without the test that one language only is reported
FirstEnglish(langs) == Len(langs) >= 1 /\ langs[1] = "en"

\* line 29: len(language_probability) == 1 and language_probability[0].lang == "en"
OnlyEnglish(langs) == Len(langs) = 1 /\ langs[1] = "en"

\* lines 20, 22-27: the classifier cannot classify the string, which is kept
EE_CannotClassify ==
    /\ pc = "ee_loop"
    /\ Len(verdicts) < Len(segments)
    /\ verdicts' = Append(verdicts, Raised)
    /\ english_sentences' =
           Append(english_sentences, segments[Len(verdicts) + 1])
    /\ UNCHANGED <<pc, exception, input, findListsVars, current_sentence,
                   limitVars, segments, file_contents>>

\* lines 20, 23, 29-30: the classifier reports languages, and the string is
\* kept when English is the only one
EE_Classified ==
    /\ pc = "ee_loop"
    /\ Len(verdicts) < Len(segments)
    /\ \E langs \in LanguageLists :
          /\ verdicts' = Append(verdicts, Reported(langs))
          /\ english_sentences' =
                 IF OnlyEnglish(langs)
                 THEN Append(english_sentences, segments[Len(verdicts) + 1])
                 ELSE english_sentences
    /\ UNCHANGED <<pc, exception, input, findListsVars, current_sentence,
                   limitVars, segments, file_contents>>

\* lines 20, 32: every string was seen: return english_sentences
EE_Return ==
    /\ pc = "ee_loop"
    /\ ~(Len(verdicts) < Len(segments))
    /\ pc' = "ee_return"
    /\ UNCHANGED <<exception, input, findListsVars, current_sentence,
                   limitVars, englishVars, file_contents>>

EnsureEnglish ==
    \/ EE_CannotClassify
    \/ EE_Classified
    \/ EE_Return

\* the longest list of strings ensure_English is called on
MaxStrings == 3

\* the strings ensure_English is called on
Strings == { <<"a", ".">>, <<"b", "@", "c">> }

InitEnsureEnglish ==
    /\ segments \in SeqUpTo(Strings, MaxStrings)
    /\ input = segments
    /\ pc = "ee_loop"
    /\ exception = "None"
    /\ sentences = <<>>
    /\ sentence_index = 0
    /\ list_index = 0
    /\ first_char = <<>>
    /\ current_sentence = <<>>
    /\ length_limit = 0
    /\ limited_sentences = <<>>
    /\ section = <<>>
    /\ token_count = 0
    /\ current_index = 0
    /\ remainder_sentence = <<>>
    /\ english_sentences = <<>>
    /\ verdicts = <<>>
    /\ file_contents = <<>>

SpecEnsureEnglish == InitEnsureEnglish /\ [][EnsureEnglish]_vars

\* the strings among the first n of the argument that the policy keeps:
\* those the classifier could not classify and those it found to be English
\* and nothing else, in the order of the argument
RECURSIVE Retained(_)
Retained(n) ==
    IF n = 0 THEN <<>>
    ELSE IF verdicts[n].raised \/ verdicts[n].langs = <<"en">>
         THEN Append(Retained(n - 1), input[n])
         ELSE Retained(n - 1)

\* C5: ensure_English returns, in the order of its argument, exactly the
\* strings the classifier could not classify or reported as English only;
\* the argument itself is not changed.
C5_FailOpenEnglishOnly ==
    /\ english_sentences = Retained(Len(verdicts))
    /\ segments = input
    /\ pc = "ee_return" => Len(verdicts) = Len(input)

\* C5 witness: ensure_English has returned after it kept a string that
\* could not be classified, kept one in English, and dropped one reported
\* as English and French
C5_Witness ==
    /\ pc = "ee_return"
    /\ \E p, q, r \in 1..Len(verdicts) :
          /\ verdicts[p].raised
          /\ verdicts[q] = Reported(<<"en">>)
          /\ verdicts[r] = Reported(<<"en", "fr">>)

----
(* get_segments, src/main.py lines 135-178 *)

\* line 156: the characters of the pattern [?.!\n\t]
Boundaries == {"?", ".", "!", "\n", "\t"}

\* line 149: file_contents.split("\n")
Lines(text) == SplitOn(text, {"\n"})

\* lines 156, 159: list(filter(None, re.split(r'[?.!\n\t]', line)))
Fragments(line) == SelectSeq(SplitOn(line, Boundaries), LAMBDA f : Len(f) # 0)

\* lines 153-159: the fragments of all the lines, in order
AllFragments(text) ==
    LET line_contents == Lines(text)
    IN  Concat([k \in 1..Len(line_contents) |-> Fragments(line_contents[k])])

\* line 165: sentences[sentence_index] + "."
Terminated(sentence) == sentence \o Str(".")

\* line 168: the limit get_segments packs with
SegmentLimit == 512

\* line 175: len(sentence.strip()) != 0 and sentence.strip()[-1] != "."
Malformed(segment) == Len(Strip(segment)) # 0 /\ Last(Strip(segment)) # "."

\* lines 147-162: read the file, split it into sentences and call
\* find_lists on them
GS_Sentences ==
    /\ pc = "gs_start"
    /\ sentences' = AllFragments(file_contents)
    /\ input' = sentences'
    /\ sentence_index' = 0
    /\ pc' = "fl_loop"
    /\ UNCHANGED <<exception, list_index, first_char, current_sentence,
                   limitVars, englishVars, file_contents>>

\* lines 162-168: find_lists has returned; end every sentence with a period
\* and call limit_section on them
GS_Periods ==
    /\ pc = "fl_return"
    /\ sentences' = [k \in 1..Len(sentences) |-> Terminated(sentences[k])]
    /\ length_limit' = SegmentLimit
    /\ limited_sentences' = <<>>
    /\ sentence_index' = 0
    /\ pc' = "ls_outer"
    /\ UNCHANGED <<exception, input, list_index, first_char, current_sentence,
                   section, token_count, current_index, remainder_sentence,
                   englishVars, file_contents>>

\* lines 168-171: limit_section has returned; call ensure_English on the
\* segments
GS_Filter ==
    /\ pc = "ls_return"
    /\ segments' = limited_sentences
    /\ english_sentences' = <<>>
    /\ verdicts' = <<>>
    /\ pc' = "ee_loop"
    /\ UNCHANGED <<exception, input, findListsVars, current_sentence,
                   limitVars, file_contents>>

\* lines 171-178: ensure_English has returned; a segment that is not empty
\* and does not end in a period makes line 176 assign to an item of a str,
\* which raises TypeError; otherwise the segments are returned
GS_Check ==
    /\ pc = "ee_return"
    /\ segments' = english_sentences
    /\ IF \E k \in 1..Len(segments') : Malformed(segments'[k])
       THEN pc' = "raised" /\ exception' = "TypeError"
       ELSE pc' = "gs_return" /\ exception' = exception
    /\ UNCHANGED <<input, findListsVars, current_sentence, limitVars,
                   english_sentences, verdicts, file_contents>>

GetSegments ==
    \/ GS_Sentences
    \/ FindLists
    \/ GS_Periods
    \/ LimitSection
    \/ GS_Filter
    \/ EnsureEnglish
    \/ GS_Check

\* a line of n words without any punctuation
Filler(n) == Join([k \in 1..n |-> Str("w")])

\* the files get_segments is called on: plain sentences, boundary
\* characters in a row, a list, a marker before prose, a marker at the end
\* of the text, a marker before a blank line, a list at the end of the text,
\* two sentences that do not fit in one segment, and lines long enough to
\* be split by the packer
Files ==
    { <<>>,
      <<"a", ".", " ", "b">>,
      <<"a", "?", "\t", "!", "b", "\n", "\n", "c">>,
      <<"a", ":", "\n", "-", "b", "\n", "-", "c", "\n", "d">>,
      <<"a", ":", "\n", "b", " ", "c", ".", " ", "d">>,
      <<"a", ".", "\n", " ", "b", ":">>,
      <<"a", ";", "\n", " ", "\n", "b">>,
      <<"a", ":", "\n", "-", "b">>,
      Filler(SegmentLimit - 2) \o <<".", " ">> \o Filler(SegmentLimit - 2),
      Filler(SegmentLimit),
      Filler(2 * SegmentLimit + 2) }

InitGetSegments ==
    /\ file_contents \in Files
    /\ pc = "gs_start"
    /\ exception = "None"
    /\ input = <<>>
    /\ sentences = <<>>
    /\ sentence_index = 0
    /\ list_index = 0
    /\ first_char = <<>>
    /\ current_sentence = <<>>
    /\ length_limit = 0
    /\ limited_sentences = <<>>
    /\ section = <<>>
    /\ token_count = 0
    /\ current_index = 0
    /\ remainder_sentence = <<>>
    /\ segments = <<>>
    /\ english_sentences = <<>>
    /\ verdicts = <<>>

SpecGetSegments == InitGetSegments /\ [][GetSegments]_vars

----
(* get_segments: properties *)

\* C6: every segment get_segments returns ends, after its trailing
\* whitespace, in a period.
C6_SegmentsEndInPeriod ==
    pc = "gs_return" =>
        \A k \in 1..Len(segments) :
            /\ Len(Strip(segments[k])) # 0
            /\ Last(Strip(segments[k])) = "."

\* a text ends in exactly one period
OnePeriod(text) ==
    /\ Last(text) = "."
    /\ Len(text) > 1 => text[Len(text) - 1] # "."

\* C7: when the sentences reach the packer, a sentence made of a fragment
\* that ends in ':' or ';' still ends in that marker, and every other
\* sentence ends in exactly one period.
C7_OnePeriodOrMarker ==
    (pc = "ls_outer" /\ length_limit = SegmentLimit) =>
        \A k \in 1..Len(sentences) :
            IF EndsInMarker(input[k]) THEN EndsInMarker(sentences[k])
            ELSE OnePeriod(sentences[k])

====
